---- MODULE Spec2Model ----
(***************************************************************************)
(* Transfer supervisor (esrally/storage/_manager.py) together with the     *)
(* request/response protocol of esrally/actor.py that TransferManager.get  *)
(* uses to talk to it.                                                     *)
(*                                                                         *)
(* The supervisor actor handles one message at a time: every handler is    *)
(* one action.  The caller of TransferManager.get is a second process that *)
(* runs the generator actor.request() interleaved with the body of the     *)
(* for-loop of get().                                                      *)
(*                                                                         *)
(* Transfer and Client (esrally/storage/_transfer.py, _client.py) are      *)
(* collaborators whose behaviour is taken from the design document.        *)
(***************************************************************************)
EXTENDS Integers, Sequences, FiniteSets, TLC

\* ------------------------------------------------------------------ bounds

\* Requests (uuids) one model run sends to the supervisor.
MaxUuid == 2
\* Configuration messages delivered to the supervisor.
MaxConfigMsgs == 1
\* Capacity of the ring of recent task errors a Transfer keeps.
MaxErrors == 1
\* Tasks one model run submits to the DummyExecutor.
MaxTasks == 3
\* document_length of the transfer whose ranges are followed, in bytes.
DocumentLength == 5
\* multipart_size of that transfer, in bytes.
MultipartSize == 2
\* Largest per-transfer budget a tick hands to that transfer.
MaxBudget == 2
\* Messages one model run delivers to the LocalThreadPoolActor.
MaxMessages == 3
\* Responses a RallyActor keeps at most before the model stops delivering.
MaxResponses == 4
\* Transitions one model run lets a RallyActor make.
MaxTransitions == 2
\* Processes one model run creates, and actor systems it builds.
MaxPids == 3
\* start_timer calls and ticks one model run of the timer makes.
MaxTimerStarts == 3
MaxTicks == 3
MaxSystems == 3

\* --------------------------------------------------------------- constants

\* None, for the fields that hold a name
None == "None"
\* Response.uuid = None
NoUuid == 0
\* Get.expected_size = None
NoSize == -1
\* Get.path = None
NoPath == <<>>

MAX_CONNECTIONS == 4
MiB == 1048576

Urls == {"u1", "u2"}

\* HEAD content_length of each url, in multipart_size units.
ContentLength(url) == IF url = "u1" THEN 2 ELSE 1

\* StorageConfig values delivered to the actor: one that passes
\* configure_actor, with fewer workers than transfers can be active, and one
\* that fails its first check.
Configs ==
    { [max_connections |-> 2, multipart_size |-> MiB, monitor_interval |-> 2, max_workers |-> 1],
      [max_connections |-> 0, multipart_size |-> MiB, monitor_interval |-> 2, max_workers |-> 1] }

\* ------------------------------------------------------------------- paths
\* A path is the sequence of its components; "/" first makes it absolute.

Home == <<"/", "home">>
LocalDir == <<"~", "storage">>

\* The (url, path, expected_size) a caller passes to get(): a default path
\* and an explicit one written in two ways; expected_size 1 matches the
\* length of u2 and mismatches the length of u1.
GetArgs ==
    { [url |-> "u1", path |-> NoPath, expected_size |-> NoSize],
      [url |-> "u1", path |-> <<"a">>, expected_size |-> 1],
      [url |-> "u2", path |-> <<".", "a">>, expected_size |-> 1] }

\* The url as os.path.join sees it: a relative string with "/" separators.
UrlComponents(url) == <<"http:", "", "host", url>>

\* os.path.join(a, b): b replaces a when b is absolute.
Join(a, b) == IF b /= <<>> /\ b[1] = "/" THEN b ELSE a \o b

\* os.path.expanduser: a leading "~" component becomes the home directory.
Expanduser(p) == IF p /= <<>> /\ p[1] = "~" THEN Home \o Tail(p) ELSE p

\* os.path.normpath: drops empty and "." components and resolves "..".
RECURSIVE NormAcc(_, _)
NormAcc(acc, rest) ==
    IF rest = <<>> THEN acc
    ELSE LET c == Head(rest) IN
         IF c = "" \/ c = "." THEN NormAcc(acc, Tail(rest))
         ELSE IF c = ".." THEN
              IF acc = <<>> \/ acc[Len(acc)] = ".." THEN NormAcc(Append(acc, c), Tail(rest))
              ELSE IF acc[Len(acc)] = "/" THEN NormAcc(acc, Tail(rest))
              ELSE NormAcc(SubSeq(acc, 1, Len(acc) - 1), Tail(rest))
         ELSE NormAcc(Append(acc, c), Tail(rest))

Normpath(p) == IF NormAcc(<<>>, p) = <<>> THEN <<".">> ELSE NormAcc(<<>>, p)

\* A variant that leaves the path as the caller wrote it.
CanonicalRaw(p) == p

\* receiveMsg_Get: path = os.path.normpath(os.path.expanduser(path))
Canonical(p) == Normpath(Expanduser(p))

\* receiveMsg_Get: the path as written, before it is canonicalised.
RequestPath(path, url) == IF path = NoPath THEN Join(LocalDir, UrlComponents(url)) ELSE path

LocalPath(path, url) == Canonical(RequestPath(path, url))

\* urllib.parse.urlparse(url).path: the part after the host, which starts
\* with "/".
UrlPath(url) == <<"/", url>>

\* StorageConfig.local_path(path, url)
local_path(path, url) ==
    Canonical(IF path = NoPath THEN Join(LocalDir, UrlPath(url)) ELSE path)

\* Every key the transfers dictionary can be asked for.
PathSpace ==
    LET raw == {RequestPath(a.path, a.url) : a \in GetArgs}
    IN raw \cup {Normpath(Expanduser(p)) : p \in raw}

\* ---------------------------------------------------------------- Transfer
\* esrally/storage/_transfer.py, from the design document.  Progress is
\* counted in ranges of multipart_size bytes: done ranges, ranges in flight.

NoTransfer == [url |-> None]

\* Transfer(...): max_connections starts at the configuration default; the
\* transfer is complete from the start when the destination file already
\* holds the whole document.
NewTransfer(url, path, document_length, on_disk) ==
    [ url |-> url, path |-> path, document_length |-> document_length,
      done |-> IF on_disk = document_length THEN document_length ELSE 0,
      in_flight |-> 0, max_connections |-> MAX_CONNECTIONS,
      errors |-> 0, failed |-> FALSE ]

\* Transfer.finished
Finished(tr) == tr.done = tr.document_length

Min(a, b) == IF a < b THEN a ELSE b
Max(a, b) == IF a > b THEN a ELSE b

\* Transfer.start(): tops the fetch tasks up to max_connections while ranges
\* are pending; a no-op at budget, and for a failed transfer.
TransferStart(tr) ==
    LET pending == tr.document_length - tr.done - tr.in_flight
        room == Max(0, tr.max_connections - tr.in_flight)
    IN IF tr.failed THEN tr
       ELSE [tr EXCEPT !.in_flight = @ + Min(pending, room)]

\* ---------------------------------------------------------------- messages

NoStatus == [url |-> None, path |-> <<>>, finished |-> FALSE]

\* TransferStatus(url=url, path=path, finished=transfer.finished, ...)
TransferStatus(url, path, transfer) ==
    [url |-> url, path |-> path, finished |-> Finished(transfer)]

\* actor.Error(uuid, err) and actor.Result(uuid, res)
Error(uuid, err) == [type |-> "Error", uuid |-> uuid, err |-> err, res |-> NoStatus]
Result(uuid, res) == [type |-> "Result", uuid |-> uuid, err |-> None, res |-> res]
\* messages a handler passes to send() that are not Responses yet
Exception(err) == [type |-> "Exception", uuid |-> NoUuid, err |-> err, res |-> NoStatus]
Plain(res) == [type |-> "Plain", uuid |-> NoUuid, err |-> None, res |-> res]

\* A message under way to the caller; origin notes the Request that was being
\* handled when it was sent (the receiver never reads it to match).
Envelope(msg, origin) ==
    [type |-> msg.type, uuid |-> msg.uuid, err |-> msg.err, res |-> msg.res, origin |-> origin]

\* as_response(msg, uuid): a Response passes unchanged, with its own uuid.
as_response(msg, uuid) ==
    IF msg.type \in {"Error", "Result"} THEN msg
    ELSE IF msg.type = "Exception" THEN Error(uuid, msg.err)
    ELSE Result(uuid, msg.res)

\* BaseActor.send while a Request is handled (_response_id is set).
RECURSIVE SendAll(_, _)
SendAll(msgs, response_id) ==
    IF msgs = <<>> THEN <<>>
    ELSE <<Envelope(as_response(Head(msgs), response_id), response_id)>>
             \o SendAll(Tail(msgs), response_id)

\* --------------------------------------------------------------- supervisor

NoConfig == [max_connections |-> -1, multipart_size |-> -1, monitor_interval |-> -1, max_workers |-> -1]

\* A validation without the check of the monitor interval.
ValidConfigNoInterval(c) ==
    /\ ~(c.max_connections < 1)
    /\ ~(c.multipart_size < MiB)

\* configure_actor: the three checks that raise ValueError.
ValidConfig(c) ==
    /\ ~(c.max_connections < 1)
    /\ ~(c.multipart_size < MiB)
    /\ ~(c.monitor_interval <= 0)

\* TransferActor.configure_actor with the timer at tid: a ValueError before
\* anything is touched, or the local directory is made when it is missing
\* and start_timer schedules the first wakeup of a new timer.
configure_actor(c, tid, wk, isdir) ==
    IF ~ValidConfig(c)
    THEN [ raised |-> "ValueError", makedirs |-> FALSE, timer_id |-> tid, wakeups |-> wk ]
    ELSE [ raised |-> None, makedirs |-> ~isdir, timer_id |-> tid + 1,
           wakeups |-> wk \cup {tid + 1} ]

\* Configurations around the limits of the three validated options.
ConfigSpace ==
    [ max_connections : {0, 1}, multipart_size : {MiB - 1, MiB},
      monitor_interval : {0, 2}, max_workers : {1} ]

LivePaths(trs) == {p \in DOMAIN trs : trs[p] /= NoTransfer}

\* max(1, self.executor.max_workers or 1)
PoolWorkers(c) == Max(1, IF c.max_workers = 0 THEN 1 ELSE c.max_workers)

\* TransferActor.max_connections
MaxConnections(c, trs) ==
    LET number_of_transfers == Cardinality(LivePaths(trs))
    IN IF number_of_transfers > 0
       THEN Min(c.max_connections, (PoolWorkers(c) \div number_of_transfers) + 1)
       ELSE c.max_connections

\* An update_transfers that keeps the finished transfers.
DropNothing(trs) == trs

\* update_transfers, first statement: the finished transfers leave the map.
DropFinished(trs) ==
    [p \in DOMAIN trs |-> IF trs[p] /= NoTransfer /\ Finished(trs[p]) THEN NoTransfer ELSE trs[p]]

\* update_transfers: every transfer left gets the budget, save_status() and
\* start().
UpdateTransfers(c, trs) ==
    LET live == DropFinished(trs)
        max_connections == MaxConnections(c, live)
    IN [p \in DOMAIN trs |->
            IF live[p] = NoTransfer THEN NoTransfer
            ELSE TransferStart([live[p] EXCEPT !.max_connections = max_connections])]

\* The size check of receiveMsg_Get, skipped.
SizeMismatchIgnored(expected_size, content_length) == FALSE

\* receiveMsg_Get: request.expected_size is not None and
\* head.content_length != request.expected_size
SizeMismatch(expected_size, content_length) ==
    expected_size /= NoSize /\ content_length /= expected_size

\* Client.head(url): answered from the HEAD cache while the entry of the url
\* is fresh (head_ttl), from the network otherwise.
HeadFromNetwork(fresh, url) == url \notin fresh

\* for e in transfer.errors: self.send(sender, actor.Error(err=e)), then
\* self.send(sender, status)
StatusMessages(url, path, transfer) ==
    [i \in 1..transfer.errors |-> Error(NoUuid, "TaskError")]
        \o <<Plain(TransferStatus(url, path, transfer))>>

\* What one run of receiveMsg_Get does: the new transfers map, the messages
\* passed to send() in order, the exception raised (None when it returns),
\* and the calls it made: client.head (network: the HEAD was not answered
\* from the urls fresh in the cache), Transfer(...), and the paths start()
\* ran on.
receiveMsg_Get(c, trs, fresh, dsk, request) ==
    LET url == request.url
        path == LocalPath(request.path, url)
        quiet == [ transfers |-> trs, sent |-> <<>>, raised |-> None,
                   head |-> FALSE, network |-> FALSE, built |-> FALSE, started |-> {} ]
    IN IF c = NoConfig
       THEN \* self.cfg raises: no configuration received yet
            [quiet EXCEPT !.raised = "RuntimeError"]
       ELSE IF trs[path] /= NoTransfer
       THEN [quiet EXCEPT !.sent = StatusMessages(url, path, trs[path])]
       ELSE LET content_length == ContentLength(url)
                headed == [quiet EXCEPT !.head = TRUE,
                                        !.network = HeadFromNetwork(fresh, url)]
                transfer == NewTransfer(url, path, content_length, dsk[path])
                inserted == [trs EXCEPT ![transfer.path] = TransferStart(transfer)]
                updated == UpdateTransfers(c, inserted)
            IN IF SizeMismatch(request.expected_size, content_length)
               THEN [headed EXCEPT !.raised = "ValueError"]
               ELSE IF Finished(transfer)
               THEN [headed EXCEPT !.built = TRUE,
                                   !.sent = StatusMessages(url, path, transfer)]
               ELSE [headed EXCEPT !.built = TRUE,
                                   !.transfers = updated,
                                   !.started = LivePaths(updated),
                                   !.sent = StatusMessages(url, path, updated[transfer.path])]

\* BaseActor.receiveUnrecognizedMessage: a message of a type the supervisor
\* has no receiveMsg_ handler for is logged; the map stays as it is.
receiveUnrecognizedMessage(trs, msg) == trs

\* The orders in which a loop over the dict can visit the transfers at S.
Orders(S) ==
    {order \in [1..Cardinality(S) -> S] :
        \A i, j \in 1..Cardinality(S) : order[i] = order[j] => i = j}

\* A loop over the transfers that lets the exception of close() out: the
\* transfers after the first one whose close() raises are not closed.
RECURSIVE CloseUntilError(_, _, _)
CloseUntilError(order, close_raises, closed) ==
    IF order = <<>> THEN closed
    ELSE IF Head(order) \in close_raises
    THEN [closed EXCEPT ![Head(order)] = @ + 1]
    ELSE CloseUntilError(Tail(order), close_raises, [closed EXCEPT ![Head(order)] = @ + 1])

\* for tr in transfers.values(): try: tr.close() except Exception: log.
\* closed counts the calls of close() per transfer.
RECURSIVE CloseAll(_, _, _)
CloseAll(order, close_raises, closed) ==
    IF order = <<>> THEN closed
    ELSE CloseAll(Tail(order), close_raises, [closed EXCEPT ![Head(order)] = @ + 1])

\* TransferActor.shutdown: stop_timer(), the map is emptied, close() runs on
\* every transfer it held, in the order of the dict; close() raises for the
\* transfers at close_raises.
shutdown(trs, close_raises, order) ==
    [ timer_id |-> 0,
      transfers |-> [p \in DOMAIN trs |-> NoTransfer],
      closed |-> CloseAll(order, close_raises, [p \in DOMAIN trs |-> 0]) ]

\* update_transfers when save_status() or start() raises for the transfer
\* at failed_at: the finished transfers are gone (first statement), the
\* transfers the loop visited before (a set: the model keeps no dict order)
\* are updated and started, failed_at has its budget set, the rest is not
\* reached.
UpdateTransfersRaises(c, trs, failed_at, before) ==
    LET live == DropFinished(trs)
        max_connections == MaxConnections(c, live)
    IN [p \in DOMAIN trs |->
            IF live[p] = NoTransfer THEN NoTransfer
            ELSE IF p \in before
            THEN TransferStart([live[p] EXCEPT !.max_connections = max_connections])
            ELSE IF p = failed_at
            THEN [live[p] EXCEPT !.max_connections = max_connections]
            ELSE live[p]]

\* What a handler does, step by step: op on the transfer at path.
Event(op, path) == [op |-> op, path |-> path]

\* The loop of update_transfers over the transfers in order: the budget is
\* assigned, then save_status(), then start(); the call named by fails_in
\* raises for the transfer at failed_at and ends the loop.
RECURSIVE TransferEvents(_, _, _)
TransferEvents(order, failed_at, fails_in) ==
    IF order = <<>> THEN <<>>
    ELSE LET p == Head(order)
             own == << Event("max_connections", p), Event("save_status", p),
                       Event("start", p) >>
         IN IF p = failed_at
            THEN IF fails_in = "save_status" THEN SubSeq(own, 1, 2) ELSE own
            ELSE own \o TransferEvents(Tail(order), failed_at, fails_in)

\* receiveMsg_WakeupMessage of the current timer: update_transfers (finished
\* transfers dropped, return when none is left, budget, loop), then
\* client.monitor(), then wakeupAfter; an exception ends the handler.
TickEvents(trs, order, failed_at, fails_in) ==
    LET live == LivePaths(DropFinished(trs))
        update == <<Event("drop", NoPath)>> \o
                  ( IF live = {} THEN <<>>
                    ELSE <<Event("budget", NoPath)>> \o
                         TransferEvents(order, failed_at, fails_in) )
    IN IF fails_in \in {"save_status", "start"} THEN update
       ELSE IF fails_in = "monitor" THEN update \o <<Event("monitor", NoPath)>>
       ELSE update \o <<Event("monitor", NoPath), Event("wakeupAfter", NoPath)>>

\* The ways one tick can go over the transfers trs: the order of the dict
\* and the call that raises, if any.
TickRuns(trs) ==
    LET live == LivePaths(DropFinished(trs))
    IN { [order |-> order, failed_at |-> NoPath, fails_in |-> f] :
            order \in Orders(live), f \in {None, "monitor"} }
       \cup { [order |-> order, failed_at |-> p, fails_in |-> f] :
                order \in Orders(live), p \in live, f \in {"save_status", "start"} }

\* The map after the tick that goes as run says.
TickResult(c, trs, run) ==
    IF run.fails_in \in {"save_status", "start"}
    THEN LET at == CHOOSE i \in 1..Len(run.order) : run.order[i] = run.failed_at
         IN UpdateTransfersRaises(c, trs, run.failed_at,
                                  {run.order[i] : i \in 1..(at - 1)})
    ELSE UpdateTransfers(c, trs)

\* The request makes receiveMsg_Get build an unfinished Transfer and call
\* start() on it.
GetStartsTransfer(c, trs, dsk, request) ==
    LET path == LocalPath(request.path, request.url)
        content_length == ContentLength(request.url)
    IN /\ c /= NoConfig
       /\ trs[path] = NoTransfer
       /\ ~SizeMismatch(request.expected_size, content_length)
       /\ ~Finished(NewTransfer(request.url, path, content_length, dsk[path]))

\* receiveMsg_Get on such a request when transfer.start() raises: the
\* transfer is in the map already, with the budget it was built with and no
\* task; update_transfers() is not reached and the handler sends nothing.
receiveMsg_GetStartRaises(c, trs, fresh, dsk, request) ==
    LET url == request.url
        path == LocalPath(request.path, url)
        transfer == NewTransfer(url, path, ContentLength(url), dsk[path])
    IN [ transfers |-> [trs EXCEPT ![transfer.path] = transfer],
         sent |-> <<>>, raised |-> "OSError",
         head |-> TRUE, network |-> HeadFromNetwork(fresh, url),
         built |-> TRUE, started |-> {} ]

\* ------------------------------------------------------------- RangeSet

\* A Range is <<start, end>>, half open; a RangeSet is a sequence of Ranges.
Offsets(rs) == UNION { rs[i][1] .. (rs[i][2] - 1) : i \in 1..Len(rs) }

SetMin(S) == CHOOSE x \in S : \A y \in S : x <= y

\* The canonical RangeSet of a finite set of offsets: its maximal runs, in
\* ascending order.
RECURSIVE Canon(_)
Canon(S) ==
    IF S = {} THEN <<>>
    ELSE LET s == SetMin(S)
             e == SetMin({y \in (s + 1)..(s + Cardinality(S)) : y \notin S})
         IN <<<<s, e>>>> \o Canon(S \ (s..(e - 1)))

\* The ranges of both sets in ascending order of start, joined as they are.
RECURSIVE SortRanges(_)
SortRanges(R) ==
    IF R = {} THEN <<>>
    ELSE LET r == CHOOSE x \in R : \A y \in R : x[1] < y[1] \/ (x[1] = y[1] /\ x[2] <= y[2])
         IN <<r>> \o SortRanges(R \ {r})

unionNoCoalesce(a, b) ==
    SortRanges({a[i] : i \in 1..Len(a)} \cup {b[i] : i \in 1..Len(b)})

\* RangeSet.union: merges and coalesces, ranges that touch included.
union(a, b) == Canon(Offsets(a) \cup Offsets(b))

\* RangeSet.difference: what is in a and not in b, canonical.
difference(a, b) == Canon(Offsets(a) \ Offsets(b))

\* RangeSet.intersection
intersection(a, b) == Canon(Offsets(a) \cap Offsets(b))

\* sorted, no empty range, consecutive ranges neither overlap nor touch
IsCanonical(rs) ==
    /\ \A i \in 1..Len(rs) : 0 <= rs[i][1] /\ rs[i][1] < rs[i][2]
    /\ \A i \in 1..(Len(rs) - 1) : rs[i][2] < rs[i + 1][1]

\* [0, document_length)
Whole(n) == IF n > 0 THEN <<<<0, n>>>> ELSE <<>>

\* ------------------------------------------------------ Transfer ranges

\* A Transfer before start(): NEW, nothing done, nothing in flight.
NewRangeTransfer ==
    [ state |-> "NEW", document_length |-> DocumentLength,
      multipart_size |-> MultipartSize, max_connections |-> 1,
      done |-> <<>>, in_flight |-> <<>>, work |-> {} ]

\* pending = [0, document_length) \ (done u in_flight)
Pending(tr) == difference(difference(Whole(tr.document_length), tr.done), tr.in_flight)

\* next_work_item: the lowest pending sub-range of at most multipart_size
\* bytes is marked in flight and becomes a work item.
next_work_item(tr) ==
    LET pending == Pending(tr)
        s == pending[1][1]
        e == Min(s + tr.multipart_size, pending[1][2])
    IN [tr EXCEPT !.in_flight = union(tr.in_flight, <<<<s, e>>>>),
                  !.work = tr.work \cup {<<s, e>>},
                  !.state = "RUNNING"]

\* Dispatching while the budget allows and ranges are pending.
RECURSIVE Dispatch(_)
Dispatch(tr) ==
    IF Cardinality(tr.work) < tr.max_connections /\ Pending(tr) # <<>>
    THEN Dispatch(next_work_item(tr))
    ELSE tr

\* The sidecar files start() can find: canonical sets inside the document.
Sidecars == { Canon(S) : S \in SUBSET (0..(DocumentLength - 1)) }

\* ------------------------------------------------------------ worker pool

TaskIds == 1..MaxTasks

\* futures.Future.cancel: a pending future becomes cancelled, a finished one
\* stays as it is.
cancel(future) == IF future = "PENDING" THEN "CANCELLED" ELSE future

\* futures.Future.set_result / set_exception raise InvalidStateError unless
\* the future is pending.
InvalidState(future) == future # "PENDING"

\* Task._task_executed with a Future handler.
_task_executed(future) ==
    IF InvalidState(future)
    THEN [future |-> future, raised |-> "InvalidStateError"]
    ELSE [future |-> "RESULT", raised |-> None]

\* Task._task_failed with a Future handler.
_task_failed(future) ==
    IF InvalidState(future)
    THEN [future |-> future, raised |-> "InvalidStateError"]
    ELSE [future |-> "EXCEPTION", raised |-> None]

\* Task.__call__: the function runs; its result goes to _task_executed inside
\* the try block, every exception of the block goes to _task_failed and is
\* raised again.
TaskCall(future, func_raises) ==
    IF func_raises
    THEN LET f == _task_failed(future)
         IN [ future |-> f.future, notified |-> <<"TaskFailed">>,
              raised |-> IF f.raised # None THEN f.raised ELSE "FuncError" ]
    ELSE LET e == _task_executed(future)
         IN IF e.raised = None
            THEN [ future |-> e.future, notified |-> <<"TaskExecuted">>, raised |-> None ]
            ELSE LET f == _task_failed(e.future)
                 IN [ future |-> f.future, notified |-> <<"TaskExecuted", "TaskFailed">>,
                      raised |-> IF f.raised # None THEN f.raised ELSE e.raised ]

\* ---------------------------------------------------------------- no_retry

\* traceback.format_exc(): text that names the exception being handled.
format_exc(ex) == <<"Traceback (most recent call last):", ex>>

\* BenchmarkFailure(message, cause=None)
BenchmarkFailure(message) == [type |-> "BenchmarkFailure", message |-> message, cause |-> None]

\* A handler without the decorator: what it raises reaches the actor system.
plain_handler(h, sender) ==
    [ sent |-> h.sent, raised |-> h.raised, result |-> h.result ]

\* The wrapper no_retry() puts around a handler whose call went as h says
\* (what it sent, what it raised, what it returned): the handler's result
\* is handed on; an Exception is logged, a BenchmarkFailure with the
\* formatted traceback is sent to the sender and the wrapper returns None.
no_retry(h, sender) ==
    IF h.raised = None
    THEN [ sent |-> h.sent, raised |-> None, result |-> h.result ]
    ELSE [ sent |-> Append(h.sent, [to |-> sender, msg |-> BenchmarkFailure(format_exc(h.raised))]),
           raised |-> None, result |-> None ]

\* LocalThreadPoolActor.receiveMsg_Task: self.executor.submit(task); the
\* executor is built on first use.
HandleTask(actor, submit_raises) ==
    [ executor |-> "ThreadPoolExecutor",
      call |-> [ sent |-> <<>>, result |-> None,
                 raised |-> IF submit_raises THEN "RuntimeError" ELSE None ] ]

\* LocalThreadPoolActor.receiveMsg_ActorExitRequest: an executor that is
\* there is shut down and dropped.
HandleExit(actor, shutdown_raises) ==
    IF actor.executor = None
    THEN [ executor |-> None, call |-> [sent |-> <<>>, result |-> None, raised |-> None] ]
    ELSE IF shutdown_raises
    THEN [ executor |-> actor.executor,
           call |-> [sent |-> <<>>, result |-> None, raised |-> "OSError"] ]
    ELSE [ executor |-> None, call |-> [sent |-> <<>>, result |-> None, raised |-> None] ]

Senders == {"sender1", "sender2"}

\* -------------------------------------------------------------- RallyActor

Children == {"child1", "child2"}

\* self.children as the subclass filled it in: the two children and an entry
\* that is None, which send_to_children_and_transition removes.
InitialChildren == <<"child1", None, "child2">>

Statuses == {"waiting", "ready", "running"}

\* The expected_status arguments: nothing, one status, a list of statuses.
ExpectedStatuses ==
    {[kind |-> "none", values |-> <<>>], [kind |-> "list", values |-> <<>>]}
        \cup {[kind |-> "str", values |-> <<st>>] : st \in Statuses}
        \cup {[kind |-> "list", values |-> <<"waiting", "ready">>]}

\* RallyActor.__init__ (children as filled in by the subclass)
NewRallyActor(children) ==
    [ status |-> None, children |-> children, received_responses |-> <<>>,
      transitions |-> 0,
      last |-> [op |-> None, sender |-> None, new_status |-> None, raised |-> None] ]

is_current_status_expected(status, expected_status) ==
    IF expected_status.kind = "none" \/ expected_status.values = <<>>
    THEN TRUE
    ELSE IF expected_status.kind = "list"
    THEN \E i \in 1..Len(expected_status.values) : expected_status.values[i] = status
    ELSE status = expected_status.values[1]

\* list(filter(None, self.children))
FilterNone(children) == SelectSeq(children, LAMBDA c : c /= None)

\* The response a child sends: it names the child it comes from.
ChildResponse(sender) == [type |-> "ChildResponse", child |-> sender]

\* ------------------------------------------------------------ actor system

\* __CURRENT_ACTOR_SYSTEM is None
NoSystem == [asys |-> 0, pid |-> 0]

\* What a call hands back: an actor system (asys > 0) or an exception.
Returned(asys) == [asys |-> asys, raised |-> None]
Raised(ex) == [asys |-> 0, raised |-> ex]

\* One process exists, pid 1, with no actor system.  initialised records
\* for each process the system its init_system calls handed out since its
\* last quit_system (0: none).
InitialProcesses ==
    [ pids |-> {1},
      global |-> [p \in 1..MaxPids |-> NoSystem],
      initialised |-> [p \in 1..MaxPids |-> 0],
      created |-> 0, shut |-> {},
      last |-> [op |-> None, pid |-> 0, result |-> Returned(0)] ]

\* system() that trusts the global whatever process wrote it.
systemAnyPid(global, pid) ==
    IF global = NoSystem
    THEN [ global |-> NoSystem, result |-> Raised("ActorSystemInitError") ]
    ELSE [ global |-> global, result |-> Returned(global.asys) ]

\* system(): the global of the calling process after the call, and what the
\* call returns or raises.
system(global, pid) ==
    IF global = NoSystem
    THEN [ global |-> NoSystem, result |-> Raised("ActorSystemInitError") ]
    ELSE IF global.pid /= pid
    THEN [ global |-> NoSystem, result |-> Raised("ActorSystemInitError") ]
    ELSE [ global |-> global, result |-> Returned(global.asys) ]

\* ------------------------------------------------------------------- timer

\* TransferActor.__init__: timer_id = 0, no wakeup under way.  A wakeup is
\* its payload's timer id with the number of the start_timer call that
\* scheduled its chain; started counts the start_timer calls, current is the
\* number of the last one when no stop_timer came after it (0 otherwise),
\* last is the wakeup the last delivery acted on.
NewTimer ==
    [ timer_id |-> 0, pending |-> {}, started |-> 0, current |-> 0, ticks |-> 0,
      last |-> [timer_id |-> 0, chain |-> 0] ]

\* ------------------------------------------------------------------- state

VARIABLES
    cfg,          \* BaseActor._cfg of the supervisor (NoConfig: not received)
    config_msgs,  \* configuration messages delivered so far
    transfers,    \* TransferActor.transfers: key -> Transfer or NoTransfer
    timer_id,     \* TransferActor.timer_id
    wakeups,      \* timer ids of the wakeup messages under way
    exited,       \* the supervisor handled ActorExitRequest
    disk,         \* key -> length of the complete file stored there (0: none)
    inbox,        \* Requests sent to the supervisor, not handled yet
    mailbox,      \* Responses sent to the caller, not received yet
    uuids,        \* uuids handed out so far
    call,         \* the running TransferManager.get call
    tasks,        \* DummyExecutor.tasks: the queued tasks, in order
    closed,       \* DummyExecutor.tasks is None
    batch,        \* the local list execute_tasks is looping over
    futures,      \* task -> state of the Future submit() returned for it
    run_log,      \* the tasks whose function was started, in order
    results,      \* task -> how its function ended
    notified,     \* task -> the TaskExecuted / TaskFailed built for its handle
    pool_error,   \* what the last call on the executor raised to its caller
    xfer,         \* one Transfer with its done / in_flight RangeSets
    pool_actor,   \* a LocalThreadPoolActor: its _executor, and what each of
                  \* its handler calls sent and handed back to the actor system
    rally,        \* a RallyActor: status, children, received_responses, the
                  \* transition() calls made and how the last call went
    procs,        \* the processes: each one's __CURRENT_ACTOR_SYSTEM, the
                  \* actor systems built and shut down, the last call
    timer         \* the supervisor's timer on its own: timer_id, the wakeup
                  \* messages under way, the ticks made

manager_vars == <<cfg, config_msgs, transfers, timer_id, wakeups, exited, disk,
                  inbox, mailbox, uuids, call>>

pool_vars == <<tasks, closed, batch, futures, run_log, results, notified, pool_error>>

vars == <<manager_vars, pool_vars, xfer, pool_actor, rally, procs, timer>>

IdleCall ==
    [ pc |-> "idle", url |-> None, path |-> NoPath, expected_size |-> NoSize,
      deadline |-> FALSE, wait |-> None,
      final_expired |-> FALSE, ask_expired |-> TRUE, timeout |-> "inf",
      sent_ids |-> {}, req_id |-> NoUuid, res_id |-> NoUuid,
      status |-> NoStatus, cause |-> None, outcome |-> None,
      got_mismatch |-> FALSE ]

Init ==
    /\ cfg = NoConfig
    /\ config_msgs = 0
    /\ transfers = [p \in PathSpace |-> NoTransfer]
    /\ timer_id = 0
    /\ wakeups = {}
    /\ exited = FALSE
    /\ disk = [p \in PathSpace |-> 0]
    /\ inbox = <<>>
    /\ mailbox = <<>>
    /\ uuids = 0
    /\ call = IdleCall
    /\ tasks = <<>>
    /\ closed = FALSE
    /\ batch = <<>>
    /\ futures = [t \in TaskIds |-> "NoFuture"]
    /\ run_log = <<>>
    /\ results = [t \in TaskIds |-> "none"]
    /\ notified = [t \in TaskIds |-> <<>>]
    /\ pool_error = None
    /\ xfer = NewRangeTransfer
    /\ pool_actor = [executor |-> None, log |-> <<>>]
    /\ rally = NewRallyActor(InitialChildren)
    /\ procs = InitialProcesses
    /\ timer = NewTimer

\* -------------------------------------------------------- supervisor actions

\* receiveMsg_ActorConfig: the cfg setter keeps the first configuration and
\* runs configure_actor on it, then the handler runs configure_actor on the
\* message.  configure_actor raises on an invalid configuration and starts
\* the timer otherwise.
Configure(c) ==
    /\ ~exited
    /\ config_msgs < MaxConfigMsgs
    /\ config_msgs' = config_msgs + 1
    /\ cfg' = IF cfg = NoConfig THEN c ELSE cfg
    /\ LET runs == IF ~ValidConfig(c) THEN 0 ELSE IF cfg = NoConfig THEN 2 ELSE 1
       IN /\ timer_id' = timer_id + runs
          /\ wakeups' = wakeups \cup ((timer_id + 1)..(timer_id + runs))
    /\ UNCHANGED <<pool_vars, xfer, pool_actor, rally, procs, timer>>
    /\ UNCHANGED <<transfers, exited, disk, inbox, mailbox, uuids, call>>

\* receiveMsg_WakeupMessage
Wakeup(id) ==
    /\ ~exited
    /\ id \in wakeups
    /\ IF id /= timer_id
       THEN /\ wakeups' = wakeups \ {id}
            /\ UNCHANGED transfers
       ELSE /\ transfers' = UpdateTransfers(cfg, transfers)
            /\ UNCHANGED wakeups
    /\ UNCHANGED <<pool_vars, xfer, pool_actor, rally, procs, timer>>
    /\ UNCHANGED <<cfg, config_msgs, timer_id, exited, disk, inbox, mailbox, uuids, call>>

\* receiveMsg_WakeupMessage of the current timer when the handler raises,
\* on the delivery and on the one retry the actor system makes: in
\* update_transfers for the transfer at failed_at, or (failed_at = NoPath)
\* in client.monitor() after it.  wakeupAfter is not reached: no wakeup of
\* this timer is under way any more.
WakeupRaises(id, failed_at, before) ==
    /\ ~exited
    /\ id \in wakeups
    /\ id = timer_id
    /\ LET live == LivePaths(DropFinished(transfers))
       IN IF failed_at = NoPath
          THEN /\ before = {}
               /\ transfers' = UpdateTransfers(cfg, transfers)
          ELSE /\ failed_at \in live
               /\ before \subseteq live \ {failed_at}
               /\ transfers' = UpdateTransfersRaises(cfg, transfers, failed_at, before)
    /\ wakeups' = wakeups \ {id}
    /\ UNCHANGED <<pool_vars, xfer, pool_actor, rally, procs, timer>>
    /\ UNCHANGED <<cfg, config_msgs, timer_id, exited, disk, inbox, mailbox, uuids, call>>

\* receiveMsg_ActorExitRequest: shutdown() stops the timer and closes every
\* transfer.
Exit ==
    /\ ~exited
    /\ exited' = TRUE
    /\ \E close_raises \in SUBSET LivePaths(transfers), order \in Orders(LivePaths(transfers)) :
          LET r == shutdown(transfers, close_raises, order)
          IN /\ timer_id' = r.timer_id
             /\ transfers' = r.transfers
    /\ UNCHANGED <<pool_vars, xfer, pool_actor, rally, procs, timer>>
    /\ UNCHANGED <<cfg, config_msgs, wakeups, disk, inbox, mailbox, uuids, call>>

\* A CancelRequest for the path: TransferActor defines no handler for it, the
\* message ends in receiveUnrecognizedMessage.
CancelRequest(path) ==
    /\ ~exited
    /\ transfers' = receiveUnrecognizedMessage(transfers, [cancel |-> path])
    /\ UNCHANGED <<pool_vars, xfer, pool_actor, rally, procs, timer>>
    /\ UNCHANGED <<cfg, config_msgs, timer_id, wakeups, exited, disk, inbox, mailbox, uuids, call>>

\* receiveMsg_Request for a Get: the handler's messages go out as Responses;
\* an exception it raises is sent as Error(err=ex).  Which HEADs the Client
\* still holds fresh is a matter of the time that passed; transfer.start()
\* may raise.
ReceiveRequest(fresh, start_raises) ==
    /\ ~exited
    /\ inbox /= <<>>
    /\ start_raises => GetStartsTransfer(cfg, transfers, disk, Head(inbox).message)
    /\ LET request == Head(inbox)
           r == IF start_raises
                THEN receiveMsg_GetStartRaises(cfg, transfers, fresh, disk, request.message)
                ELSE receiveMsg_Get(cfg, transfers, fresh, disk, request.message)
           out == IF r.raised = None THEN r.sent ELSE r.sent \o <<Error(NoUuid, r.raised)>>
       IN /\ inbox' = Tail(inbox)
          /\ transfers' = r.transfers
          /\ mailbox' = mailbox \o SendAll(out, request.uuid)
    /\ UNCHANGED <<pool_vars, xfer, pool_actor, rally, procs, timer>>
    /\ UNCHANGED <<cfg, config_msgs, timer_id, wakeups, exited, disk, uuids, call>>

\* A fetch task of the transfer at p returns: its range is done; the file
\* is complete with the last range.
TaskSucceeds(p) ==
    /\ ~exited
    /\ transfers[p] /= NoTransfer
    /\ transfers[p].in_flight > 0
    /\ transfers' = [transfers EXCEPT ![p].in_flight = @ - 1, ![p].done = @ + 1]
    /\ disk' = IF Finished(transfers'[p])
               THEN [disk EXCEPT ![p] = transfers[p].document_length]
               ELSE disk
    /\ UNCHANGED <<pool_vars, xfer, pool_actor, rally, procs, timer>>
    /\ UNCHANGED <<cfg, config_msgs, timer_id, wakeups, exited, inbox, mailbox, uuids, call>>

\* A fetch task of the transfer at p raises: its range is pending again and
\* the error is recorded; a permanent error fails the transfer.
TaskFails(p, permanent) ==
    /\ ~exited
    /\ transfers[p] /= NoTransfer
    /\ transfers[p].in_flight > 0
    /\ transfers' = [transfers EXCEPT ![p].in_flight = @ - 1,
                                      ![p].errors = Min(@ + 1, MaxErrors),
                                      ![p].failed = @ \/ permanent]
    /\ UNCHANGED <<pool_vars, xfer, pool_actor, rally, procs, timer>>
    /\ UNCHANGED <<cfg, config_msgs, timer_id, wakeups, exited, disk, inbox, mailbox, uuids, call>>

\* ------------------------------------------------- TransferManager.get caller

\* A variant of the tail of get() that hands back whatever status it holds.
GetResultAnyStatus(status) ==
    IF status = NoStatus THEN "TimeoutError" ELSE "returned"

\* get(), after the loop: TimeoutError without a status, TransferInterrupted
\* with an unfinished one, the status otherwise.
GetResult(status) ==
    IF status = NoStatus THEN "TimeoutError"
    ELSE IF ~status.finished THEN "TransferInterrupted"
    ELSE "returned"

\* The call once get() has left its loop: the locals of request() are gone,
\* what get() raises or returns is kept.
GetReturn(c, status, cause) ==
    [IdleCall EXCEPT !.pc = "done", !.url = c.url, !.path = c.path,
                     !.expected_size = c.expected_size, !.deadline = c.deadline,
                     !.got_mismatch = c.got_mismatch,
                     !.status = status, !.cause = cause, !.outcome = GetResult(status)]

\* not convert.time_left(ask_deadline, final_deadline).s(): no time is left
\* to the earlier of the two deadlines (ask_deadline starts at 0, "send it
\* now").
NoTimeLeft(ask_passed, final_passed) == ask_passed \/ final_passed

\* request(), top of the loop, for the call in state c: timeout is the time
\* left to the final deadline; when the ask deadline or the final deadline
\* has passed the request goes out (again) under a new uuid by ask(),
\* otherwise the call listens.  Either deadline may have passed since it was
\* last looked at.  The call then waits in ask() or listen().
RequestLoop(c, final_passed, ask_passed) ==
    /\ final_passed \in (IF c.deadline THEN {c.final_expired, TRUE} ELSE {FALSE})
    /\ ask_passed \in {c.ask_expired, TRUE}
    /\ LET timeout == IF ~c.deadline THEN "inf" ELSE IF final_passed THEN "zero" ELSE "pos"
       IN IF NoTimeLeft(ask_passed, final_passed)
          THEN /\ uuids < MaxUuid
               /\ uuids' = uuids + 1
               /\ inbox' = Append(inbox, [ uuid |-> uuids', message |->
                             [ url |-> c.url, path |-> c.path,
                               expected_size |-> c.expected_size ] ])
               /\ call' = [c EXCEPT !.pc = "wait", !.timeout = timeout,
                                    !.final_expired = final_passed, !.ask_expired = FALSE,
                                    !.req_id = uuids', !.sent_ids = @ \cup {uuids'}]
          ELSE /\ call' = [c EXCEPT !.pc = "wait", !.timeout = timeout,
                                    !.final_expired = final_passed, !.ask_expired = ask_passed]
               /\ UNCHANGED <<inbox, uuids>>

\* get(url, path, expected_size, timeout): the call enters request() and
\* sends its first Request.
GetCall(args, deadline, final_passed) ==
    /\ call.pc \in {"idle", "done"}
    /\ RequestLoop([IdleCall EXCEPT !.url = args.url, !.path = args.path,
                                    !.expected_size = args.expected_size,
                                    !.deadline = deadline],
                   final_passed, TRUE)
    /\ UNCHANGED <<pool_vars, xfer, pool_actor, rally, procs, timer>>
    /\ UNCHANGED <<cfg, config_msgs, transfers, timer_id, wakeups, exited, disk, mailbox>>

\* get(..., wait=...): the signature has no such parameter, the call raises
\* TypeError before its body runs.
GetCallWait(wait) ==
    /\ wait \in {"false", "true"}
    /\ call.pc \in {"idle", "done"}
    /\ call' = [IdleCall EXCEPT !.pc = "done", !.wait = wait, !.outcome = "TypeError"]
    /\ UNCHANGED <<pool_vars, xfer, pool_actor, rally, procs, timer>>
    /\ UNCHANGED <<cfg, config_msgs, transfers, timer_id, wakeups, exited, disk,
                   inbox, mailbox, uuids>>

\* request() gets a Response from ask() or listen().  One whose uuid (or,
\* without one, the uuid of the response before it) was not sent by this
\* call is ignored and the loop goes round; any other is yielded to the loop
\* of get(): a Result sets status and ends the loop when finished, an Error
\* raises and ends it.
RequestReceive(final_passed, ask_passed) ==
    /\ call.pc = "wait"
    /\ mailbox /= <<>>
    /\ mailbox' = Tail(mailbox)
    /\ LET response == Head(mailbox)
           res_id == IF response.uuid /= NoUuid THEN response.uuid ELSE call.res_id
           got == [call EXCEPT !.res_id = res_id,
                               !.got_mismatch = @ \/ ( /\ response.err = "ValueError"
                                                       /\ response.origin \in call.sent_ids )]
       IN IF res_id \notin call.sent_ids
          THEN RequestLoop(got, final_passed, ask_passed)
          ELSE IF response.type = "Error"
          THEN /\ call' = GetReturn(got, call.status, response.err)
               /\ UNCHANGED <<inbox, uuids>>
          ELSE IF response.res.finished
          THEN /\ call' = GetReturn(got, response.res, None)
               /\ UNCHANGED <<inbox, uuids>>
          ELSE RequestLoop([got EXCEPT !.status = response.res], final_passed, ask_passed)
    /\ UNCHANGED <<pool_vars, xfer, pool_actor, rally, procs, timer>>
    /\ UNCHANGED <<cfg, config_msgs, transfers, timer_id, wakeups, exited, disk>>

\* ask() or listen() returns None: with time left when the wait began the
\* loop goes round, otherwise request() yields Error(TimeoutError) and stops,
\* and the Error raises in get().
RequestTimeout(ask_passed) ==
    /\ call.pc = "wait"
    /\ call.timeout /= "inf"
    /\ IF call.timeout = "pos"
       THEN RequestLoop([call EXCEPT !.final_expired = TRUE], TRUE, ask_passed)
       ELSE /\ call' = GetReturn(call, call.status, "TimeoutError")
            /\ UNCHANGED <<inbox, uuids>>
    /\ UNCHANGED <<pool_vars, xfer, pool_actor, rally, procs, timer>>
    /\ UNCHANGED <<cfg, config_msgs, transfers, timer_id, wakeups, exited, disk, mailbox>>

\* --------------------------------------------------------------------- spec

Next ==
    \/ \E c \in Configs : Configure(c)
    \/ \E id \in wakeups : Wakeup(id)
    \/ Exit
    \/ \E id \in wakeups, failed_at \in PathSpace \cup {NoPath}, before \in SUBSET PathSpace :
            WakeupRaises(id, failed_at, before)
    \/ \E fresh \in SUBSET Urls, start_raises \in BOOLEAN : ReceiveRequest(fresh, start_raises)
    \/ \E path \in PathSpace : CancelRequest(path)
    \/ \E p \in PathSpace : TaskSucceeds(p)
    \/ \E p \in PathSpace, permanent \in BOOLEAN : TaskFails(p, permanent)
    \/ \E args \in GetArgs, deadline \in BOOLEAN, final_passed \in BOOLEAN :
            GetCall(args, deadline, final_passed)
    \/ \E wait \in {"false", "true"} : GetCallWait(wait)
    \/ \E final_passed \in BOOLEAN, ask_passed \in BOOLEAN :
            RequestReceive(final_passed, ask_passed)
    \/ \E ask_passed \in BOOLEAN : RequestTimeout(ask_passed)

Spec == Init /\ [][Next]_vars

\* ------------------------------------------------------ DummyExecutor runs

\* DummyExecutor.submit: a new Future and Task at the end of the queue.  A
\* task function of the running batch may be the caller.
submit ==
    /\ \E t \in TaskIds : futures[t] = "NoFuture"
    /\ IF closed
       THEN /\ pool_error' = "Executor already closed"
            /\ UNCHANGED <<tasks, futures>>
       ELSE LET t == Cardinality({u \in TaskIds : futures[u] # "NoFuture"}) + 1
            IN /\ futures' = [futures EXCEPT ![t] = "PENDING"]
               /\ tasks' = Append(tasks, t)
               /\ pool_error' = None
    /\ UNCHANGED <<closed, batch, run_log, results, notified>>
    /\ UNCHANGED <<manager_vars, xfer, pool_actor, rally, procs, timer>>

\* DummyExecutor.execute_tasks up to its loop: the queue becomes the batch.
execute_tasks ==
    /\ batch = <<>>
    /\ IF closed
       THEN /\ pool_error' = "Executor already closed"
            /\ UNCHANGED <<tasks, batch>>
       ELSE /\ batch' = tasks
            /\ tasks' = <<>>
            /\ pool_error' = None
    /\ UNCHANGED <<closed, futures, run_log, results, notified>>
    /\ UNCHANGED <<manager_vars, xfer, pool_actor, rally, procs, timer>>

\* One round of the loop of execute_tasks, t(): an exception leaves the loop
\* and execute_tasks, the rest of the batch is gone with the local list.
execute_task(func_raises) ==
    /\ batch # <<>>
    /\ LET t == Head(batch)
           r == TaskCall(futures[t], func_raises)
       IN /\ run_log' = Append(run_log, t)
          /\ results' = [results EXCEPT ![t] = IF func_raises THEN "raised" ELSE "returned"]
          /\ futures' = [futures EXCEPT ![t] = r.future]
          /\ notified' = [notified EXCEPT ![t] = r.notified]
          /\ pool_error' = r.raised
          /\ batch' = IF r.raised = None THEN Tail(batch) ELSE <<>>
    /\ UNCHANGED <<tasks, closed>>
    /\ UNCHANGED <<manager_vars, xfer, pool_actor, rally, procs, timer>>

\* DummyExecutor.shutdown: the queue is dropped, its futures are cancelled.
shutdown_executor ==
    /\ batch = <<>>
    /\ ~closed
    /\ tasks' = <<>>
    /\ closed' = TRUE
    /\ futures' = [t \in TaskIds |->
                    IF \E i \in 1..Len(tasks) : tasks[i] = t
                    THEN cancel(futures[t]) ELSE futures[t]]
    /\ pool_error' = None
    /\ UNCHANGED <<batch, run_log, results, notified>>
    /\ UNCHANGED <<manager_vars, xfer, pool_actor, rally, procs, timer>>

\* The holder of a handle cancels it (a Transfer that is closed gives up its
\* pending work): Executor has submit() and max_workers only, so the handle
\* is all the holder can reach.
cancel_handle(t) ==
    /\ futures[t] = "PENDING"
    /\ futures' = [futures EXCEPT ![t] = cancel(futures[t])]
    /\ UNCHANGED <<tasks, closed, batch, run_log, results, notified, pool_error>>
    /\ UNCHANGED <<manager_vars, xfer, pool_actor, rally, procs, timer>>

PoolNext ==
    \/ submit
    \/ execute_tasks
    \/ \E func_raises \in BOOLEAN : execute_task(func_raises)
    \/ shutdown_executor
    \/ \E t \in TaskIds : cancel_handle(t)

PoolSpec == Init /\ [][PoolNext]_vars

\* ---------------------------------------------------- one Transfer's events

\* start() of a NEW transfer: done is seeded from the sidecar, then the first
\* work items are dispatched; a document that is complete already is DONE.
RangeStart(sidecar) ==
    /\ xfer.state = "NEW"
    /\ LET seeded == [xfer EXCEPT !.done = sidecar, !.state = "PLANNING"]
       IN xfer' = IF sidecar = Whole(xfer.document_length)
                  THEN [seeded EXCEPT !.state = "DONE"]
                  ELSE Dispatch(seeded)
    /\ UNCHANGED <<manager_vars, pool_vars, pool_actor, rally, procs, timer>>

\* A task succeeded: its range moves from in_flight into done.  The result
\* of a task of a transfer that is no longer live is discarded.
RangeTaskSucceeded(item) ==
    /\ item \in xfer.work
    /\ LET left == [xfer EXCEPT !.work = xfer.work \ {item}]
           moved == [left EXCEPT !.in_flight = difference(xfer.in_flight, <<item>>),
                                 !.done = union(xfer.done, <<item>>)]
       IN xfer' = IF xfer.state # "RUNNING" THEN left
                  ELSE IF moved.done = Whole(xfer.document_length)
                       THEN [moved EXCEPT !.state = "DONE"]
                       ELSE moved
    /\ UNCHANGED <<manager_vars, pool_vars, pool_actor, rally, procs, timer>>

\* A task failed: its range moves out of in_flight, back into pending; a
\* permanent error makes the transfer FAILED.
RangeTaskFailed(item, permanent) ==
    /\ item \in xfer.work
    /\ LET left == [xfer EXCEPT !.work = xfer.work \ {item}]
           back == [left EXCEPT !.in_flight = difference(xfer.in_flight, <<item>>)]
       IN xfer' = IF xfer.state # "RUNNING" THEN left
                  ELSE IF permanent THEN [back EXCEPT !.state = "FAILED"]
                  ELSE back
    /\ UNCHANGED <<manager_vars, pool_vars, pool_actor, rally, procs, timer>>

\* A monitor tick: the supervisor sets the budget and calls start() again,
\* which dispatches work items for pending ranges up to the budget.
RangeTick(max_connections) ==
    /\ xfer.state = "RUNNING"
    /\ xfer' = Dispatch([xfer EXCEPT !.max_connections = max_connections])
    /\ UNCHANGED <<manager_vars, pool_vars, pool_actor, rally, procs, timer>>

\* close(): any state -> CANCELLED; started tasks run to completion.
RangeClose ==
    /\ xfer.state \in {"NEW", "RUNNING"}
    /\ xfer' = [xfer EXCEPT !.state = "CANCELLED"]
    /\ UNCHANGED <<manager_vars, pool_vars, pool_actor, rally, procs, timer>>

RangeNext ==
    \/ \E sidecar \in Sidecars : RangeStart(sidecar)
    \/ \E item \in xfer.work : RangeTaskSucceeded(item)
    \/ \E item \in xfer.work, permanent \in BOOLEAN : RangeTaskFailed(item, permanent)
    \/ \E max_connections \in 1..MaxBudget : RangeTick(max_connections)
    \/ RangeClose

RangeSpec == Init /\ [][RangeNext]_vars

\* ------------------------------------------------- LocalThreadPoolActor runs

\* The actor system delivers a Task from sender: the decorated
\* receiveMsg_Task runs.
receiveMsg_Task(sender, submit_raises) ==
    /\ Len(pool_actor.log) < MaxMessages
    /\ LET h == HandleTask(pool_actor, submit_raises)
           w == no_retry(h.call, sender)
       IN pool_actor' = [ executor |-> h.executor,
                          log |-> Append(pool_actor.log,
                                    [ sender |-> sender, handler_raised |-> h.call.raised,
                                      sent |-> w.sent, raised |-> w.raised,
                                      result |-> w.result ]) ]
    /\ UNCHANGED <<manager_vars, pool_vars, xfer, rally, procs, timer>>

\* The actor system delivers an ActorExitRequest from sender: the decorated
\* receiveMsg_ActorExitRequest runs.
receiveMsg_ActorExitRequest(sender, shutdown_raises) ==
    /\ Len(pool_actor.log) < MaxMessages
    /\ shutdown_raises => pool_actor.executor /= None
    /\ LET h == HandleExit(pool_actor, shutdown_raises)
           w == no_retry(h.call, sender)
       IN pool_actor' = [ executor |-> h.executor,
                          log |-> Append(pool_actor.log,
                                    [ sender |-> sender, handler_raised |-> h.call.raised,
                                      sent |-> w.sent, raised |-> w.raised,
                                      result |-> w.result ]) ]
    /\ UNCHANGED <<manager_vars, pool_vars, xfer, rally, procs, timer>>

LocalPoolNext ==
    \/ \E sender \in Senders, submit_raises \in BOOLEAN : receiveMsg_Task(sender, submit_raises)
    \/ \E sender \in Senders, shutdown_raises \in BOOLEAN :
            receiveMsg_ActorExitRequest(sender, shutdown_raises)

LocalPoolSpec == Init /\ [][LocalPoolNext]_vars

\* ------------------------------------------------------------ RallyActor runs

\* A handler calls transition_when_all_children_responded for msg from sender.
transition_when_all_children_responded(sender, expected_status, new_status) ==
    /\ Len(rally.received_responses) < MaxResponses
    /\ rally.transitions < MaxTransitions
    /\ LET call_ == [op |-> "transition_when_all_children_responded",
                     sender |-> sender, new_status |-> new_status]
           received == Append(rally.received_responses, ChildResponse(sender))
           response_count == Len(received)
           expected_count == Len(rally.children)
       IN IF ~is_current_status_expected(rally.status, expected_status)
          THEN rally' = [rally EXCEPT !.last = call_ @@ [raised |-> "RallyAssertionError"]]
          ELSE IF response_count > expected_count
          THEN rally' = [rally EXCEPT !.received_responses = received,
                                      !.last = call_ @@ [raised |-> "RallyAssertionError"]]
          ELSE IF response_count < expected_count
          THEN rally' = [rally EXCEPT !.received_responses = received,
                                      !.last = call_ @@ [raised |-> None]]
          ELSE rally' = [rally EXCEPT !.status = new_status,
                                      !.received_responses = <<>>,
                                      !.transitions = @ + 1,
                                      !.last = call_ @@ [raised |-> None]]
    /\ UNCHANGED <<manager_vars, pool_vars, xfer, pool_actor, procs, timer>>

\* A handler calls send_to_children_and_transition.
send_to_children_and_transition(expected_status, new_status) ==
    /\ rally.transitions < MaxTransitions
    /\ LET call_ == [op |-> "send_to_children_and_transition",
                     sender |-> None, new_status |-> new_status]
       IN IF ~is_current_status_expected(rally.status, expected_status)
          THEN rally' = [rally EXCEPT !.last = call_ @@ [raised |-> "RallyAssertionError"]]
          ELSE rally' = [rally EXCEPT !.status = new_status,
                                      !.children = FilterNone(rally.children),
                                      !.last = call_ @@ [raised |-> None]]
    /\ UNCHANGED <<manager_vars, pool_vars, xfer, pool_actor, procs, timer>>

RallyNext ==
    \/ \E sender \in Children, expected_status \in ExpectedStatuses, new_status \in Statuses :
            transition_when_all_children_responded(sender, expected_status, new_status)
    \/ \E expected_status \in ExpectedStatuses, new_status \in Statuses :
            send_to_children_and_transition(expected_status, new_status)

RallySpec == Init /\ [][RallyNext]_vars

\* ---------------------------------------------------------- actor system runs

\* Process pid calls system().
call_system(pid) ==
    /\ pid \in procs.pids
    /\ LET r == system(procs.global[pid], pid)
       IN procs' = [procs EXCEPT !.global[pid] = r.global,
                                 !.last = [op |-> "system", pid |-> pid, result |-> r.result]]
    /\ UNCHANGED <<manager_vars, pool_vars, xfer, pool_actor, rally, timer>>

\* Process pid calls init_system(cfg); ActorSystem.from_config may raise.
init_system(pid, from_config_raises) ==
    /\ pid \in procs.pids
    /\ LET r == system(procs.global[pid], pid)
       IN IF r.result.raised = None
          THEN procs' = [procs EXCEPT !.global[pid] = r.global,
                                      !.last = [op |-> "init_system", pid |-> pid,
                                                result |-> r.result]]
          ELSE /\ procs.created < MaxSystems
               /\ IF from_config_raises
                  THEN procs' = [procs EXCEPT !.global[pid] = r.global,
                                              !.last = [op |-> "init_system", pid |-> pid,
                                                        result |-> Raised("OSError")]]
                  ELSE LET asys == procs.created + 1
                       IN procs' = [procs EXCEPT
                                      !.global[pid] = [asys |-> asys, pid |-> pid],
                                      !.created = asys,
                                      !.initialised[pid] = IF @ = 0 THEN asys ELSE @,
                                      !.last = [op |-> "init_system", pid |-> pid,
                                                result |-> Returned(asys)]]
    /\ UNCHANGED <<manager_vars, pool_vars, xfer, pool_actor, rally, timer>>

\* Process pid calls quit_system(); asys.shutdown() may raise.
quit_system(pid, shutdown_raises) ==
    /\ pid \in procs.pids
    /\ LET r == system(procs.global[pid], pid)
       IN /\ shutdown_raises => r.result.raised = None
          /\ procs' = [procs EXCEPT
                         !.global[pid] = NoSystem,
                         !.initialised[pid] = 0,
                         !.shut = IF r.result.raised = None THEN @ \cup {r.result.asys} ELSE @,
                         !.last = [op |-> "quit_system", pid |-> pid,
                                   result |-> IF shutdown_raises THEN Raised("OSError")
                                              ELSE Returned(0)]]
    /\ UNCHANGED <<manager_vars, pool_vars, xfer, pool_actor, rally, timer>>

\* Process pid forks: the child starts with a copy of the parent's module
\* globals and a pid no process had before.
fork(pid) ==
    /\ pid \in procs.pids
    /\ Cardinality(procs.pids) < MaxPids
    /\ LET child == Cardinality(procs.pids) + 1
       IN procs' = [procs EXCEPT !.pids = @ \cup {child},
                                 !.global[child] = procs.global[pid],
                                 !.initialised[child] = 0,
                                 !.last = [op |-> "fork", pid |-> pid, result |-> Returned(0)]]
    /\ UNCHANGED <<manager_vars, pool_vars, xfer, pool_actor, rally, timer>>

SystemNext ==
    \/ \E pid \in 1..MaxPids : call_system(pid)
    \/ \E pid \in 1..MaxPids, from_config_raises \in BOOLEAN : init_system(pid, from_config_raises)
    \/ \E pid \in 1..MaxPids, shutdown_raises \in BOOLEAN : quit_system(pid, shutdown_raises)
    \/ \E pid \in 1..MaxPids : fork(pid)

SystemSpec == Init /\ [][SystemNext]_vars

\* ------------------------------------------------------------------ timer runs

\* start_timer(interval): timer_id += 1 and a wakeup with the new id.
start_timer ==
    /\ timer.started < MaxTimerStarts
    /\ LET id == timer.timer_id + 1
           chain == timer.started + 1
       IN timer' = [timer EXCEPT !.timer_id = id,
                                 !.pending = @ \cup {[timer_id |-> id, chain |-> chain]},
                                 !.started = chain,
                                 !.current = chain]
    /\ UNCHANGED <<manager_vars, pool_vars, xfer, pool_actor, rally, procs>>

\* stop_timer(): timer_id = 0.
stop_timer ==
    /\ timer' = [timer EXCEPT !.timer_id = 0, !.current = 0]
    /\ UNCHANGED <<manager_vars, pool_vars, xfer, pool_actor, rally, procs>>

\* receiveMsg_WakeupMessage(msg): a payload with another timer id is dropped;
\* otherwise the tick is made and the same payload is scheduled again.
receiveMsg_WakeupMessage(msg) ==
    /\ msg \in timer.pending
    /\ timer.ticks < MaxTicks
    /\ IF msg.timer_id /= timer.timer_id
       THEN timer' = [timer EXCEPT !.pending = @ \ {msg}]
       ELSE timer' = [timer EXCEPT !.ticks = @ + 1, !.last = msg]
    /\ UNCHANGED <<manager_vars, pool_vars, xfer, pool_actor, rally, procs>>

TimerNext ==
    \/ start_timer
    \/ stop_timer
    \/ \E msg \in timer.pending : receiveMsg_WakeupMessage(msg)

TimerSpec == Init /\ [][TimerNext]_vars

\* ------------------------------------------------------------------ claims

\* The Request the supervisor handles next, and the key its Get looks up.
NextGet == Head(inbox).message
NextGetPath == Normpath(Expanduser(RequestPath(NextGet.path, NextGet.url)))
GetIsNext == ~exited /\ inbox /= <<>> /\ cfg /= NoConfig
\* A step in which the supervisor handles a Request.
GetStep == inbox /= <<>> /\ inbox' = Tail(inbox)

\* C1: a get() whose Request met the size mismatch (no live transfer,
\* expected_size different from the HEAD content_length) and that received
\* the error the supervisor sent for it ends by raising that error.
C1_SizeMismatchReachesCaller ==
    (call.pc = "done" /\ call.got_mismatch) => call.outcome = "ValueError"

\* C2: a Get that fails the expected_size check changes nothing of the
\* supervisor: the transfers map and the files stay as they were, no
\* Transfer is built, start() runs on no transfer, and only the error goes
\* out.
C2_MismatchLeavesStateUnchanged ==
    [][ ( /\ GetStep
          /\ GetIsNext
          /\ transfers[NextGetPath] = NoTransfer
          /\ NextGet.expected_size /= NoSize
          /\ NextGet.expected_size /= ContentLength(NextGet.url) )
        => /\ transfers' = transfers
           /\ disk' = disk
           /\ timer_id' = timer_id /\ wakeups' = wakeups
           /\ Len(mailbox') = Len(mailbox) + 1
           /\ mailbox'[Len(mailbox')].type = "Error"
           /\ mailbox'[Len(mailbox')].err = "ValueError"
           /\ \A fresh \in SUBSET Urls :
                LET r == receiveMsg_Get(cfg, transfers, fresh, disk, NextGet)
                IN r.raised = "ValueError" /\ ~r.built /\ r.started = {} ]_vars

C2_Witness ==
    /\ \E i \in 1..Len(mailbox) : mailbox[i].err = "ValueError"
    /\ LivePaths(transfers) = {}

\* C3: the transfers map is keyed by canonical path, so it holds at most one
\* Transfer per canonical path; and a Get whose canonical path has a
\* Transfer in the map issues no HEAD, builds no Transfer, runs start() on
\* nothing and leaves the map as it is.
C3_OneTransferPerCanonicalPath ==
    /\ \A p \in LivePaths(transfers) :
          /\ p = Normpath(Expanduser(p))
          /\ transfers[p].path = p
    /\ \A p, q \in LivePaths(transfers) :
          Normpath(Expanduser(p)) = Normpath(Expanduser(q)) => p = q
    /\ (GetIsNext /\ transfers[NextGetPath] /= NoTransfer)
          => \A fresh \in SUBSET Urls :
                LET r == receiveMsg_Get(cfg, transfers, fresh, disk, NextGet)
                IN /\ ~r.head /\ ~r.network /\ ~r.built /\ r.started = {}
                   /\ r.transfers = transfers

\* Two statuses under way for the same canonical path, asked for by two
\* Requests, with a single Transfer in the map.
C3_Witness ==
    /\ Len(mailbox) >= 2
    /\ mailbox[1].type = "Result" /\ mailbox[2].type = "Result"
    /\ mailbox[1].origin /= mailbox[2].origin
    /\ mailbox[1].res.path = <<"a">> /\ mailbox[2].res.path = <<"a">>
    /\ LivePaths(transfers) = {<<"a">>}

\* C4: a Get for a (url, path) whose file is complete (the transfer reached
\* DONE) sends finished=true and does no network I/O: no HEAD reaches the
\* network and no fetch task is started, whether or not a tick has dropped
\* the finished transfer from the map.
C4_DoneGetDoesNoNetworkIO ==
    (GetIsNext /\ disk[NextGetPath] = ContentLength(NextGet.url))
        => \A fresh \in SUBSET Urls :
              LET r == receiveMsg_Get(cfg, transfers, fresh, disk, NextGet)
              IN /\ ~r.head /\ ~r.network
                 /\ r.started = {}
                 /\ r.raised = None
                 /\ r.sent[Len(r.sent)].res.finished

\* C5: get() returns only a finished status; it raises TransferInterrupted
\* when the last status it received is unfinished and TimeoutError when it
\* received none.
C5_GetReturnsOnlyFinished ==
    (call.pc = "done" /\ call.wait = None)
        => /\ call.outcome = "returned" => (call.status /= NoStatus /\ call.status.finished)
           /\ (call.status /= NoStatus /\ ~call.status.finished)
                 => call.outcome = "TransferInterrupted"
           /\ call.status = NoStatus => call.outcome = "TimeoutError"
           /\ call.outcome \in {"returned", "TransferInterrupted", "TimeoutError"}

C5_Witness ==
    /\ call.pc = "done"
    /\ call.outcome = "TransferInterrupted"
    /\ call.status /= NoStatus /\ ~call.status.finished

\* C6: get(wait=false) returns the current status at once, finished or not;
\* get(wait=true) returns a status once the transfer is terminal.
C6_WaitFlagHonoured ==
    (call.pc = "done" /\ call.wait \in {"false", "true"}) => call.outcome = "returned"

\* C7: when the caller's deadline expires before the transfer is terminal,
\* get() raises TimeoutError, whether or not it had received an unfinished
\* status before.
C7_DeadlineRaisesTimeoutError ==
    (call.pc = "done" /\ call.cause = "TimeoutError") => call.outcome = "TimeoutError"

\* C8: get() raises TransferInterrupted over a task error only when the
\* transfer has failed, not while it is still running with a recorded
\* transient error.
C8_InterruptedOnlyWhenFailed ==
    ( /\ call.pc = "done" /\ ~exited
      /\ call.outcome = "TransferInterrupted" /\ call.cause = "TaskError" )
        => LET path == Normpath(Expanduser(RequestPath(call.path, call.url)))
           IN transfers[path] /= NoTransfer /\ transfers[path].failed

\* C9: every transfer in the map has
\* max_connections = min(configured max_connections, pool.max_workers div N + 1)
\* for the N transfers in the map.
C9_BudgetFormula ==
    \A p \in LivePaths(transfers) :
        transfers[p].max_connections =
            Min(cfg.max_connections,
                (cfg.max_workers \div Cardinality(LivePaths(transfers))) + 1)

\* C10: the budget of every transfer in the map is at least 1 and at most
\* the configured max_connections.
C10_BudgetAtLeastOne ==
    \A p \in LivePaths(transfers) :
        /\ transfers[p].max_connections >= 1
        /\ transfers[p].max_connections <= cfg.max_connections

\* C11: every transfer in the map has at most max_connections fetch tasks in
\* flight, under a configuration that passed validation: also right after
\* the supervisor lowered the budget because a transfer joined, and for the
\* tasks of a new transfer's first start().
C11_InFlightWithinBudget ==
    ValidConfig(cfg) =>
        \A p \in LivePaths(transfers) :
            transfers[p].in_flight <= transfers[p].max_connections

\* C13: whatever tick the supervisor handles next, completed or raising, the
\* map holds no finished transfer after it; and a Get that builds a Transfer
\* found finished leaves the map as it is and runs start() on nothing.
C13_NoFinishedTransferKept ==
    /\ (~exited /\ timer_id \in wakeups)
          => /\ \A p \in LivePaths(UpdateTransfers(cfg, transfers)) :
                    ~Finished(UpdateTransfers(cfg, transfers)[p])
             /\ \A failed_at \in PathSpace, before \in SUBSET PathSpace :
                  LET after == UpdateTransfersRaises(cfg, transfers, failed_at, before)
                  IN \A p \in LivePaths(after) : ~Finished(after[p])
    /\ ( /\ GetIsNext
         /\ transfers[NextGetPath] = NoTransfer
         /\ disk[NextGetPath] = ContentLength(NextGet.url)
         /\ NextGet.expected_size \in {NoSize, ContentLength(NextGet.url)} )
          => \A fresh \in SUBSET Urls :
                LET r == receiveMsg_Get(cfg, transfers, fresh, disk, NextGet)
                IN r.built /\ r.transfers = transfers /\ r.started = {}

\* A finished transfer has left the map of a supervisor that did not exit,
\* and a Get for its path is the next message.
C13_Witness ==
    /\ GetIsNext
    /\ transfers[NextGetPath] = NoTransfer
    /\ disk[NextGetPath] = ContentLength(NextGet.url)

\* C14: from the start of the timer until Exit a wakeup of the current timer
\* is always under way: every tick handled re-arms it, so ticks never stop.
C14_TickAlwaysPending ==
    (~exited /\ timer_id > 0) => timer_id \in wakeups

\* A step in which the handler of a Get raised: the exception went out as
\* the last Error.
GetRaisedStep ==
    /\ GetStep
    /\ Len(mailbox') = Len(mailbox) + 1
    /\ mailbox'[Len(mailbox')].err \in {"RuntimeError", "ValueError", "OSError"}
\* A step in which the handler of the current timer's tick raised: its
\* wakeup was taken and the supervisor is still there.
TickRaisedStep ==
    /\ timer_id > 0 /\ timer_id \in wakeups /\ timer_id \notin wakeups'
    /\ timer_id' = timer_id /\ ~exited'

\* C15: an exception raised while the supervisor handles a Get or a tick
\* stops nothing: the supervisor is still there, the tick of the running
\* timer is still scheduled, and the map is either as it was or every
\* transfer in it has been given its budget.
C15_HandlerExceptionContained ==
    [][ (GetRaisedStep \/ TickRaisedStep)
        => /\ ~exited'
           /\ timer_id > 0 => (timer_id \in wakeups <=> timer_id \in wakeups')
           /\ \/ transfers' = transfers
              \/ \A p \in LivePaths(transfers') :
                    transfers'[p].max_connections = MaxConnections(cfg, transfers') ]_vars

\* C16: Exit empties the map, stops the timer and calls close() exactly once
\* on every transfer the map held, whichever close() raises; after Exit the
\* map stays empty and every wakeup still under way carries a timer id that
\* is not the current one, so its handler neither runs update_transfers nor
\* schedules a wakeup.
C16_ExitClosesAll ==
    /\ ~exited =>
          \A close_raises \in SUBSET LivePaths(transfers), order \in Orders(LivePaths(transfers)) :
             LET r == shutdown(transfers, close_raises, order)
             IN /\ LivePaths(r.transfers) = {}
                /\ r.timer_id = 0
                /\ \A p \in PathSpace :
                      r.closed[p] = IF p \in LivePaths(transfers) THEN 1 ELSE 0
    /\ exited =>
          /\ LivePaths(transfers) = {}
          /\ timer_id = 0
          /\ \A id \in wakeups : id /= timer_id

\* Exit came while a get() was polling an unfinished transfer and with
\* wakeups under way.
C16_Witness ==
    /\ exited
    /\ wakeups /= {}
    /\ call.pc = "wait" /\ call.status /= NoStatus /\ ~call.status.finished

\* C17: a CancelRequest for the canonical path of a transfer in the map
\* takes that transfer out of the map and leaves the others as they are.
C17_CancelRemovesTransfer ==
    ~exited =>
        \A path \in LivePaths(transfers) :
            LET after == receiveUnrecognizedMessage(transfers, [cancel |-> path])
            IN /\ after[path] = NoTransfer
               /\ \A p \in PathSpace \ {path} : after[p] = transfers[p]

\* C18: every execution of a task resolves its handle exactly once: with
\* TaskExecuted, the future holding the result, exactly when the function
\* returned, and with TaskFailed, the future holding the exception, exactly
\* when it raised; nothing is built for a task that has not run.
C18_HandleResolvedOnce ==
    \A t \in TaskIds :
        /\ results[t] = "returned" =>
                notified[t] = <<"TaskExecuted">> /\ futures[t] = "RESULT"
        /\ results[t] = "raised" =>
                notified[t] = <<"TaskFailed">> /\ futures[t] = "EXCEPTION"
        /\ results[t] = "none" =>
                notified[t] = <<>> /\ futures[t] \notin {"RESULT", "EXCEPTION"}

\* Position of task t in the log of started tasks, 0 when it has not started.
StartedAt(t) ==
    IF \E i \in 1..Len(run_log) : run_log[i] = t
    THEN CHOOSE i \in 1..Len(run_log) : run_log[i] = t
    ELSE 0

\* C19: tasks start in the order of their submission: once a task has
\* started, every task submitted before it has started earlier.
C19_ServedFifo ==
    \A a \in TaskIds, b \in TaskIds :
        (a < b /\ StartedAt(b) > 0) =>
            (StartedAt(a) > 0 /\ StartedAt(a) < StartedAt(b))

\* C20: a shutdown empties the queue and cancels the future of every task
\* that was in it, nothing starts once the executor is closed, submit() and
\* execute_tasks() on a closed executor raise 'Executor already closed' and
\* change nothing, and a work item cancelled before it started never starts.
C20_CancelledWorkDropped ==
    [][ /\ (~closed /\ closed') =>
            /\ tasks' = <<>>
            /\ \A i \in 1..Len(tasks) : futures'[tasks[i]] = "CANCELLED"
        /\ closed =>
            /\ run_log' = run_log
            /\ <<tasks', closed', batch'>> = <<tasks, closed, batch>>
            /\ futures' = futures => pool_error' = "Executor already closed"
        /\ \A t \in TaskIds :
              (futures[t] = "CANCELLED" /\ StartedAt(t) = 0) => StartedAt(t)' = 0
      ]_vars

\* C12: in every state of a Transfer, done and in_flight are canonical
\* RangeSets, they share no offset, and both lie inside [0, document_length).
C12_RangesCanonicalDisjoint ==
    /\ IsCanonical(xfer.done)
    /\ IsCanonical(xfer.in_flight)
    /\ Offsets(xfer.done) \cap Offsets(xfer.in_flight) = {}
    /\ Offsets(xfer.done) \cup Offsets(xfer.in_flight) \subseteq 0..(xfer.document_length - 1)

\* Work items have succeeded and were coalesced into one range of done,
\* and the next range, which touches it, is in flight.
C12_Witness ==
    /\ xfer.state = "RUNNING"
    /\ Len(xfer.done) = 1
    /\ xfer.done[1][1] = 0
    /\ xfer.done[1][2] >= xfer.multipart_size
    /\ xfer.in_flight # <<>>
    /\ xfer.in_flight[1][1] = xfer.done[1][2]

\* A step in which request() takes a Response from ask() or listen().
ResponseStep == call.pc = "wait" /\ mailbox /= <<>> /\ mailbox' = Tail(mailbox)

\* The exceptions the Get handler raises itself; receiveMsg_Request sends
\* them to the requester.
HandlerErrors == {"RuntimeError", "ValueError", "OSError"}

\* C21: request() yields only what answers a Request of this call: a
\* Response that carries the uuid of no Request the call sent, or no uuid
\* at all, is ignored (the call keeps waiting and its status stays as it
\* was), whatever was received before it.
C21_OnlyMatchedResponsesYielded ==
    [][ (ResponseStep /\ Head(mailbox).uuid \notin call.sent_ids)
        => /\ call'.pc = "wait"
           /\ call'.status = call.status
           /\ call'.cause = call.cause ]_vars

\* C22: the Error the supervisor sends when its handler raised on a Request
\* of this call is yielded by request(), also as the first response of the
\* call, and raises the handler's exception in the caller.
C22_HandlerErrorYielded ==
    [][ ( /\ ResponseStep
          /\ Head(mailbox).type = "Error"
          /\ Head(mailbox).err \in HandlerErrors
          /\ Head(mailbox).origin \in call.sent_ids )
        => /\ call'.pc = "done"
           /\ call'.cause = Head(mailbox).err ]_vars

\* C23: for every Request the supervisor finishes handling, at least one
\* Response carrying the uuid of that Request goes out to the requester.
C23_EveryRequestAnswered ==
    [][ GetStep
        => \E i \in (Len(mailbox) + 1)..Len(mailbox') :
              mailbox'[i].uuid = Head(inbox).uuid ]_vars

\* C24: request() with a timeout ends at the deadline: when the wait that
\* began after the deadline returns nothing it yields Error(TimeoutError)
\* and stops, and a call that is under way sends no Request once its
\* deadline has passed.
C24_StopsAtDeadline ==
    [][ /\ ( /\ call.pc = "wait" /\ call.timeout = "zero"
             /\ mailbox' = mailbox /\ call' /= call )
           => (call'.pc = "done" /\ call'.cause = "TimeoutError")
        /\ (call.pc = "wait" /\ Len(inbox') > Len(inbox))
           => ~call'.final_expired ]_vars

\* C25: a configuration with max_connections < 1, multipart_size < 1 MiB
\* or monitor_interval <= 0 makes configure_actor raise ValueError without
\* making the local directory and without starting the timer; a rejected
\* configuration message leaves the supervisor without timer.
C25_InvalidConfigRefused ==
    [][ /\ \A c \in ConfigSpace, isdir \in BOOLEAN :
              (c.max_connections < 1 \/ c.multipart_size < MiB \/ c.monitor_interval <= 0)
                  => LET r == configure_actor(c, timer_id, wakeups, isdir)
                     IN /\ r.raised = "ValueError"
                        /\ ~r.makedirs
                        /\ r.timer_id = timer_id
                        /\ r.wakeups = wakeups
        /\ (cfg = NoConfig /\ cfg' /= NoConfig /\ cfg'.max_connections < 1)
              => (timer_id' = timer_id /\ wakeups' = wakeups) ]_vars

\* An invalid configuration was delivered and a Get was handled after it.
C25_Witness ==
    /\ cfg /= NoConfig /\ cfg.max_connections < 1
    /\ config_msgs = MaxConfigMsgs
    /\ LivePaths(transfers) /= {}

\* p lies inside the directory dir.
IsInside(p, dir) == Len(dir) < Len(p) /\ SubSeq(p, 1, Len(dir)) = dir

\* C26: for a Get without path the key of the handler is the canonical
\* form of local_dir joined with the path component of the url, it lies
\* inside local_dir, and StorageConfig.local_path gives the same path.
C26_DefaultPathInsideLocalDir ==
    (GetIsNext /\ NextGet.path = NoPath)
        => /\ NextGetPath = Canonical(LocalDir \o Tail(UrlPath(NextGet.url)))
           /\ IsInside(NextGetPath, Canonical(LocalDir))
           /\ IsInside(local_path(NoPath, NextGet.url), Canonical(LocalDir))
           /\ NextGetPath = local_path(NoPath, NextGet.url)

\* Position of the event in the sequence, 0 when it is not there.
EventAt(events, op, path) ==
    IF \E i \in 1..Len(events) : events[i] = Event(op, path)
    THEN CHOOSE i \in 1..Len(events) : events[i] = Event(op, path)
    ELSE 0

\* The steps of one tick are all there and in order.
TickInOrder(events, live) ==
    /\ EventAt(events, "drop", NoPath) = 1
    /\ live /= {} => EventAt(events, "budget", NoPath) = 2
    /\ EventAt(events, "monitor", NoPath) > 0
    /\ \A p \in live :
          /\ 2 < EventAt(events, "max_connections", p)
          /\ EventAt(events, "max_connections", p) < EventAt(events, "save_status", p)
          /\ EventAt(events, "save_status", p) < EventAt(events, "start", p)
          /\ EventAt(events, "start", p) < EventAt(events, "monitor", NoPath)

\* C27: in every tick of the current timer the finished transfers are
\* dropped first, then the budget is computed from those left, then every
\* live transfer gets its max_connections, its save_status() and its
\* start() in this order, and client.monitor() runs after all of them, on
\* ticks without live transfer too.
C27_TickOrder ==
    (~exited /\ timer_id > 0 /\ timer_id \in wakeups)
        => \A run \in TickRuns(transfers) :
              TickInOrder(TickEvents(transfers, run.order, run.failed_at, run.fails_in),
                          LivePaths(DropFinished(transfers)))

\* receiveMsg_Get for a new unfinished transfer, up to and including its
\* first start(): the Transfer as built, in the map, started.
FirstStart(trs, dsk, request) ==
    LET url == request.url
        path == LocalPath(request.path, url)
        transfer == NewTransfer(url, path, ContentLength(url), dsk[path])
    IN [ transfer |-> TransferStart(transfer),
         transfers |-> [trs EXCEPT ![transfer.path] = transfer] ]

\* C28: when a Get builds a new transfer, the transfer holds the budget
\* computed with itself counted when its first start() runs, so the first
\* start() dispatches no more tasks than that budget.
C28_BudgetBeforeFirstStart ==
    (GetIsNext /\ GetStartsTransfer(cfg, transfers, disk, NextGet))
        => LET first == FirstStart(transfers, disk, NextGet)
               budget == MaxConnections(cfg, first.transfers)
           IN /\ first.transfer.max_connections = budget
              /\ first.transfer.in_flight <= budget

\* A transfer that is not failed has ranges pending and no task in flight.
Stalled(tr) == ~tr.failed /\ tr.in_flight = 0 /\ tr.done < tr.document_length

\* C29: every tick calls start() on every unfinished transfer of the map,
\* and a transfer with pending ranges and no task in flight has fetch tasks
\* again after the tick.
C29_TickRestartsStalled ==
    (~exited /\ ValidConfig(cfg) /\ timer_id > 0 /\ timer_id \in wakeups)
        => \A run \in TickRuns(transfers) :
              LET events == TickEvents(transfers, run.order, run.failed_at, run.fails_in)
                  after == TickResult(cfg, transfers, run)
              IN \A p \in LivePaths(DropFinished(transfers)) :
                    /\ EventAt(events, "start", p) > 0
                    /\ Stalled(transfers[p]) => after[p].in_flight > 0

TransitionCall ==
    /\ rally' /= rally
    /\ rally'.last.op = "transition_when_all_children_responded"

\* The children that have responded in the round, the calling one included.
Responded ==
    {rally.received_responses[i].child : i \in 1..Len(rally.received_responses)}
        \cup {rally'.last.sender}

\* C31: transition_when_all_children_responded changes status and calls
\* transition() only once every child has responded, also when a child
\* responded more than once; it then sets new_status, calls transition() once
\* and empties received_responses; a call in an unexpected status raises
\* RallyAssertionError and changes neither status nor received_responses.
C31_TransitionOnlyWhenAllResponded ==
    [][ TransitionCall =>
          /\ (rally'.status /= rally.status \/ rally'.transitions /= rally.transitions)
                => /\ \A i \in 1..Len(rally.children) :
                          rally.children[i] /= None => rally.children[i] \in Responded
                   /\ rally'.status = rally'.last.new_status
                   /\ rally'.transitions = rally.transitions + 1
                   /\ rally'.received_responses = <<>>
          /\ (rally'.last.raised = "RallyAssertionError"
                /\ Len(rally.received_responses) < Len(rally.children))
                => /\ rally'.status = rally.status
                   /\ rally'.received_responses = rally.received_responses ]_vars

\* C32: system() returns an actor system only in a process that initialised
\* one and did not quit it since, and then the same one each time; it raises
\* ActorSystemInitError otherwise, in a forked process too.  init_system
\* hands out the process's system when it has one and builds no second one,
\* and builds a fresh one when it has none.  No system that was shut down is
\* handed out.
C32_SystemOnlyWhereInitialised ==
    [][ procs' /= procs =>
          LET c == procs'.last
              mine == procs.initialised[c.pid]
          IN /\ c.op = "system" =>
                   /\ mine /= 0 => c.result = Returned(mine)
                   /\ mine = 0 => c.result = Raised("ActorSystemInitError")
             /\ c.op = "init_system" =>
                   /\ mine /= 0 => (c.result = Returned(mine) /\ procs'.created = procs.created)
                   /\ (mine = 0 /\ c.result.raised = None) =>
                         /\ procs'.created = procs.created + 1
                         /\ c.result.asys = procs'.created
             /\ (c.op \in {"system", "init_system"} /\ c.result.raised = None) =>
                   c.result.asys \notin procs.shut ]_vars

\* A forked process asked for the system its parent holds and got
\* ActorSystemInitError, after a system had been quit and a fresh one built.
C32_Witness ==
    /\ procs.last.op = "system"
    /\ procs.last.pid /= 1
    /\ procs.last.result = Raised("ActorSystemInitError")
    /\ procs.initialised[1] > 1
    /\ procs.shut /= {}

\* The step delivers a configuration message to the supervisor.
ConfigStep == config_msgs' = config_msgs + 1

\* C33: the first configuration message sets cfg and runs configure_actor
\* exactly once (a valid one starts one timer); a later one is ignored: cfg
\* keeps its value, configure_actor is not run, no new timer is started.
C33_LaterConfigIgnored ==
    [][ ConfigStep =>
          /\ cfg = NoConfig =>
                /\ cfg' /= NoConfig
                /\ timer_id' = (IF ValidConfig(cfg') THEN timer_id + 1 ELSE timer_id)
                /\ Cardinality(wakeups' \ wakeups) = (IF ValidConfig(cfg') THEN 1 ELSE 0)
          /\ cfg /= NoConfig =>
                /\ cfg' = cfg
                /\ timer_id' = timer_id
                /\ wakeups' = wakeups ]_vars

\* C34: a wakeup scheduled by a timer that was stopped is never acted on,
\* also when start_timer was called again after the stop: a tick is only made
\* for the wakeup chain of the last start_timer with no stop_timer after it,
\* and at most one chain under way carries the current timer id.
C34_StoppedTimerStaysStopped ==
    [][ /\ timer'.ticks /= timer.ticks => timer'.last.chain = timer.current
        /\ (timer'.timer_id /= 0) =>
              Cardinality({m \in timer'.pending : m.timer_id = timer'.timer_id}) <= 1 ]_vars

\* C35: the configuration the supervisor holds, and serves Gets and ticks
\* with, satisfies the validated bounds (max_connections >= 1, multipart_size
\* >= 1 MiB, monitor_interval > 0): a configuration configure_actor rejected
\* is never kept as cfg.
C35_RetainedConfigIsValid ==
    cfg /= NoConfig =>
        /\ cfg.max_connections >= 1
        /\ cfg.multipart_size >= MiB
        /\ cfg.monitor_interval > 0

\* C36: the TransferStatus answered to a Get describes the artifact the
\* request names: when the handler reports the values of a Transfer that is
\* in the map, the url of the status is the url of that Transfer, also when
\* the Transfer was put there by a Get for another url with the same path.
C36_StatusDescribesRequestedUrl ==
    (GetIsNext /\ transfers[NextGetPath] /= NoTransfer)
        => \A fresh \in SUBSET Urls :
              LET r == receiveMsg_Get(cfg, transfers, fresh, disk, NextGet)
              IN \A i \in 1..Len(r.sent) :
                    r.sent[i].type = "Plain"
                        => /\ r.sent[i].res.url = transfers[NextGetPath].url
                           /\ r.sent[i].res.finished = Finished(transfers[NextGetPath])

\* The tasks in a sequence of task ids.
InSeq(seq) == {seq[i] : i \in 1..Len(seq)}

\* C37: no task submitted to DummyExecutor is lost: at every moment a
\* submitted task is still queued, is in the batch execute_tasks is running,
\* was run (once), or was cancelled; a task that raises does not take the
\* rest of its batch with it.
C37_NoTaskLost ==
    /\ \A t \in TaskIds :
          futures[t] /= "NoFuture"
              => \/ t \in InSeq(tasks)
                 \/ t \in InSeq(batch)
                 \/ t \in InSeq(run_log)
                 \/ futures[t] = "CANCELLED"
    /\ \A i, j \in 1..Len(run_log) : run_log[i] = run_log[j] => i = j

====
